---- MODULE Spec2Model ----
(***************************************************************************)
(* The scheduler of diet_reminder_bot.py: run() loads the configuration,   *)
(* then polls the clock forever and dispatches each plan entry whose time  *)
(* equals the current minute, at most once per entry while the observed    *)
(* date stays the same (sent_keys is cleared when the date changes).       *)
(***************************************************************************)
EXTENDS Integers, Sequences, FiniteSets, TLC

(* ----------------------------- bounds ---------------------------------- *)

\* calendar dates are 0..MaxDate (consecutive days)
MaxDate == 1

\* a plan has 1..MaxPlanLen entries
MaxPlanLen == 2

Dates == 0..MaxDate

\* last_seen_date = None
NoDate == -1

(* --------------------------- clock readings ---------------------------- *)

\* strftime("%H:%M"): two zero-padded digits for the hour, two for the minute
FormatHM(h, m) == <<h \div 10, h % 10, m \div 10, m % 10>>

\* the (hour, minute) pairs datetime.now() returns in the model
ClockTimes == {<<8, 30>>, <<8, 31>>, <<9, 30>>}

(* ------------------------------- plan ---------------------------------- *)

ReminderItem(t, title) == [time_24h |-> t, title |-> title]

\* "08:30" and "09:30" as the plan writes them
T0830 == <<0, 8, 3, 0>>
T0930 == <<0, 9, 3, 0>>

\* the entries a plan is made of: the first two of DAILY_PLAN and one that
\* shares the time of the first under another title
PlanEntries ==
    { ReminderItem(T0830, "Morning dry fruits and seeds"),
      ReminderItem(T0930, "Breakfast"),
      ReminderItem(T0830, "Coconut water") }

Plans == UNION { [1..n -> PlanEntries] : n \in 1..MaxPlanLen }

(* ---------------------------- environment ------------------------------ *)

\* a value of an environment variable is a sequence of tokens; Blank is a
\* variable that is unset or holds only spaces
Blank == <<>>

\* a text that is neither an ISO date nor an integer (here: the empty text)
Malformed == <<>>

RequiredValues == {Blank, <<"x">>}

\* the sender as Twilio prints it, the destination in E.164 form, and for
\* both a number with neither prefix
TwilioNumberValues == {Blank, <<"whatsapp:", "+", "1">>, <<"1">>}
SisterNumberValues == {Blank, <<"+", "91">>, <<"91">>}
TimezoneValues == {<<"Asia/Kolkata">>, <<"Nowhere/Bad">>}
DateValues == {Malformed} \cup { <<d>> : d \in Dates }
IntValues == {Malformed, <<2, 0>>}

Envs ==
    [ TWILIO_ACCOUNT_SID : RequiredValues,
      TWILIO_AUTH_TOKEN : RequiredValues,
      TWILIO_WHATSAPP_NUMBER : TwilioNumberValues,
      SISTER_WHATSAPP_NUMBER : SisterNumberValues,
      TIMEZONE : TimezoneValues,
      START_DATE : DateValues,
      CALCIUM_REMINDER_WEEKDAY : IntValues,
      POLL_INTERVAL_SECONDS : IntValues ]

\* str.startswith
StartsWith(value, prefix) == Len(value) > 0 /\ Head(value) = prefix

RequireEnvAccepts(value) == FALSE

\* _require_env raises ValueError on an unset or blank variable
RequireEnvRaises(value) == value = Blank

\* _normalize_whatsapp_number raises unless the value starts with
\* "whatsapp:" or with "+"
NormalizeRaises(value) ==
    /\ ~StartsWith(value, "whatsapp:")
    /\ ~StartsWith(value, "+")

NormalizeWhatsappNumber(value) ==
    IF StartsWith(value, "whatsapp:") THEN value ELSE <<"whatsapp:">> \o value

\* _normalize_whatsapp_number(_require_env(name), name)
NumberRaises(value) == RequireEnvRaises(value) \/ NormalizeRaises(value)

\* date.fromisoformat and int raise ValueError on a malformed text
FromIsoformatRaises(value) == Len(value) # 1
IntRaises(value) == value = Malformed

\* ZoneInfo raises on a name that is no timezone
ZoneInfoRaises(value) == value # <<"Asia/Kolkata">>

\* load_config and ZoneInfo in run(): some step of the startup raises
StartupRaises(env) ==
    \/ RequireEnvRaises(env.TWILIO_ACCOUNT_SID)
    \/ RequireEnvRaises(env.TWILIO_AUTH_TOKEN)
    \/ NumberRaises(env.TWILIO_WHATSAPP_NUMBER)
    \/ NumberRaises(env.SISTER_WHATSAPP_NUMBER)
    \/ FromIsoformatRaises(env.START_DATE)
    \/ IntRaises(env.CALCIUM_REMINDER_WEEKDAY)
    \/ IntRaises(env.POLL_INTERVAL_SECONDS)
    \/ ZoneInfoRaises(env.TIMEZONE)

AppConfig(env) ==
    [ twilio_whatsapp_number |-> NormalizeWhatsappNumber(env.TWILIO_WHATSAPP_NUMBER),
      sister_whatsapp_number |-> NormalizeWhatsappNumber(env.SISTER_WHATSAPP_NUMBER),
      timezone |-> env.TIMEZONE,
      start_date |-> Head(env.START_DATE) ]

NoConfig == [ start_date |-> NoDate ]

(* ------------------------------- state --------------------------------- *)

VARIABLES
    pc,              \* where run() is
    environ,         \* os.environ after load_dotenv
    DAILY_PLAN,      \* the plan, fixed for the run
    config,          \* AppConfig, or NoConfig before load_config returned
    sent_keys,       \* the dedup ledger
    last_seen_date,  \* the date of the last active iteration, or NoDate
    today,           \* now_local.date() of this iteration
    current_hm,      \* now_local.strftime("%H:%M") of this iteration
    idx,             \* position of the for loop in DAILY_PLAN
    events,          \* what this iteration logged, in order
    phase,           \* what this iteration did: "none", "waiting", "active"
    was_active,      \* history: some iteration of this run did active work
    completed,       \* history: keys whose dispatch attempt has ended
    reattempted,     \* history: an attempt started for a key in completed
    prev_active,     \* history: the date the previous active iteration observed
    rolled,          \* history: this iteration observed another date than that
    streak_keys,     \* history: keys completed since the observed date changed
    streak_dup,      \* history: an attempt started for a key in streak_keys
    ledger_at_scan,  \* history: the ledger when this iteration's scan began
    cleared,         \* history: this iteration cleared the ledger
    last_read,       \* history: the date the previous poll read, or NoDate
    decreased,       \* history: a poll of this run read an earlier date
    prior            \* history: a key the previous process attempted, or NoKey

vars == <<pc, environ, DAILY_PLAN, config, sent_keys, last_seen_date, today,
          current_hm, idx, events, phase, was_active, completed, reattempted,
          prev_active, rolled, streak_keys, streak_dup, ledger_at_scan,
          cleared, last_read, decreased, prior>>

fixedVars == <<environ, DAILY_PLAN, config>>

\* history of the current iteration's day-boundary check
scanHist == <<ledger_at_scan, cleared>>

\* history of the clock readings of the run and of the process before it
runHist == <<last_read, decreased, prior>>

histVars == <<was_active, completed, reattempted, prev_active, rolled,
              streak_keys, streak_dup, scanHist, runHist>>

\* no key
NoKey == <<>>

\* key = f"{today.isoformat()}-{item.time_24h}-{item.title}"
Key(d, item) == <<d, item.time_24h, item.title>>

\* the key of the entry the for loop is at
CurrentKey == Key(today, DAILY_PLAN[idx])

Init ==
    /\ pc = "start"
    /\ environ \in Envs
    /\ DAILY_PLAN \in Plans
    /\ config = NoConfig
    /\ sent_keys = {}
    /\ last_seen_date = NoDate
    /\ today = NoDate
    /\ current_hm = <<>>
    /\ idx = 0
    /\ events = <<>>
    /\ phase = "none"
    /\ was_active = FALSE
    /\ completed = {}
    /\ reattempted = FALSE
    /\ prev_active = NoDate
    /\ rolled = FALSE
    /\ streak_keys = {}
    /\ streak_dup = FALSE
    /\ ledger_at_scan = {}
    /\ cleared = FALSE
    /\ last_read = NoDate
    /\ decreased = FALSE
    /\ prior = NoKey

(* ------------------------------ startup -------------------------------- *)

\* run(), lines 197-199, when load_config or ZoneInfo raises: run() ends
StartupFails ==
    /\ pc = "start"
    /\ StartupRaises(environ)
    /\ pc' = "crashed"
    /\ UNCHANGED <<fixedVars, sent_keys, last_seen_date, today, current_hm, idx,
                   events, phase, histVars>>

\* the ledger and last_seen_date are taken over as the process before left
\* them
StartupKeepsLedger ==
    /\ pc = "start"
    /\ ~StartupRaises(environ)
    /\ config' = AppConfig(environ)
    /\ pc' = "poll"
    /\ UNCHANGED <<environ, DAILY_PLAN, sent_keys, last_seen_date, today,
                   current_hm, idx, events, phase, histVars>>

\* run(), lines 197-205, when the configuration loads
Startup ==
    /\ pc = "start"
    /\ ~StartupRaises(environ)
    /\ config' = AppConfig(environ)
    /\ sent_keys' = {}
    /\ last_seen_date' = NoDate
    /\ pc' = "poll"
    /\ UNCHANGED <<environ, DAILY_PLAN, today, current_hm, idx, events, phase,
                   histVars>>

(* ------------------------------ the loop ------------------------------- *)

\* lines 208-210: read the clock, truncated to the minute
ReadClock ==
    /\ pc = "poll"
    /\ \E d \in Dates, t \in ClockTimes :
          /\ today' = d
          /\ current_hm' = FormatHM(t[1], t[2])
          /\ decreased' = (decreased \/ d < last_read)
          /\ last_read' = IF decreased \/ d < last_read THEN NoDate ELSE d
    /\ pc' = "check"
    /\ UNCHANGED <<fixedVars, sent_keys, last_seen_date, idx, events, phase,
                   was_active, completed, reattempted, prev_active, rolled,
                   streak_keys, streak_dup, scanHist, prior>>

BeforeStartInclusive == today <= config.start_date

BeforeStartSticky == today < config.start_date /\ ~was_active

\* line 212
BeforeStart == today < config.start_date

\* the day-boundary check is made before the start date is looked at
WaitForStartAfterBoundary ==
    /\ pc = "check"
    /\ BeforeStart
    /\ sent_keys' = IF last_seen_date # today THEN {} ELSE sent_keys
    /\ last_seen_date' = today
    /\ phase' = "waiting"
    /\ pc' = "sleeping"
    /\ UNCHANGED <<fixedVars, today, current_hm, idx, events, histVars>>

\* lines 212-214: before the start date the iteration only sleeps
WaitForStart ==
    /\ pc = "check"
    /\ BeforeStart
    /\ phase' = "waiting"
    /\ pc' = "sleeping"
    /\ UNCHANGED <<fixedVars, sent_keys, last_seen_date, today, current_hm, idx,
                   events, histVars>>

DateChangedOnlyAtFirst == last_seen_date = NoDate

DateChangedNever == FALSE

DateChangedAlways == TRUE

\* line 216
DateChanged == last_seen_date # today

\* last_seen_date is updated and the ledger is kept
DayBoundaryKeepsLedger ==
    /\ pc = "check"
    /\ ~BeforeStart
    /\ last_seen_date' = today
    /\ UNCHANGED <<sent_keys, cleared>>
    /\ phase' = "active"
    /\ idx' = 1
    /\ pc' = "scan"
    /\ ledger_at_scan' = sent_keys'
    /\ was_active' = TRUE
    /\ rolled' = (today # prev_active)
    /\ streak_keys' = IF today # prev_active THEN {} ELSE streak_keys
    /\ prev_active' = today
    /\ UNCHANGED <<fixedVars, today, current_hm, events, completed, reattempted,
                   streak_dup, runHist>>

\* lines 216-218: the day-boundary check, then the scan starts
DayBoundary ==
    /\ pc = "check"
    /\ ~BeforeStart
    /\ IF DateChanged
          THEN /\ sent_keys' = {}
               /\ last_seen_date' = today
               /\ cleared' = TRUE
          ELSE UNCHANGED <<sent_keys, last_seen_date, cleared>>
    /\ phase' = "active"
    /\ idx' = 1
    /\ pc' = "scan"
    /\ ledger_at_scan' = sent_keys'
    /\ was_active' = TRUE
    /\ rolled' = (today # prev_active)
    /\ streak_keys' = IF today # prev_active THEN {} ELSE streak_keys
    /\ prev_active' = today
    /\ UNCHANGED <<fixedVars, today, current_hm, events, completed, reattempted,
                   streak_dup, runHist>>

NotDueNever(item) == FALSE

\* line 221
NotDue(item) == item.time_24h # current_hm

AlreadySentNever(key) == FALSE

\* the ledger is asked for the date and the time only, not for the title
AlreadySentSameTime(key) ==
    \E sent \in sent_keys : sent[1] = key[1] /\ sent[2] = key[2]

\* line 225
AlreadySent(key) == key \in sent_keys

\* lines 221-226: an entry that is not due, or whose key is in the ledger
SkipItem ==
    /\ pc = "scan"
    /\ idx <= Len(DAILY_PLAN)
    /\ \/ NotDue(DAILY_PLAN[idx])
       \/ AlreadySent(CurrentKey)
    /\ idx' = idx + 1
    /\ UNCHANGED <<fixedVars, pc, sent_keys, last_seen_date, today, current_hm,
                   events, phase, histVars>>

\* the ledger is assigned the key instead of being added to
RecordReplaces(key) == {key}

\* the finally clause adds nothing
RecordNothing(key) == sent_keys

\* lines 234-236: finally
Record(key) == sent_keys \cup {key}

\* the call of trigger_event is not waited for
AttemptStartAsync ==
    /\ pc = "scan"
    /\ idx <= Len(DAILY_PLAN)
    /\ ~NotDue(DAILY_PLAN[idx])
    /\ ~AlreadySent(CurrentKey)
    /\ events' = Append(events, <<"attempt", idx>>)
    /\ sent_keys' = Record(CurrentKey)
    /\ idx' = idx + 1
    /\ reattempted' = (reattempted \/ CurrentKey \in completed)
    /\ streak_dup' = (streak_dup \/ CurrentKey \in streak_keys)
    /\ completed' = completed \cup {CurrentKey}
    /\ streak_keys' = streak_keys \cup {CurrentKey}
    /\ UNCHANGED <<fixedVars, pc, last_seen_date, today, current_hm, phase,
                   was_active, prev_active, rolled, scanHist,
                   runHist>>

\* the key is recorded when the attempt is logged, before the call
AttemptStartRecordsFirst ==
    /\ pc = "scan"
    /\ idx <= Len(DAILY_PLAN)
    /\ ~NotDue(DAILY_PLAN[idx])
    /\ ~AlreadySent(CurrentKey)
    /\ events' = Append(events, <<"attempt", idx>>)
    /\ sent_keys' = Record(CurrentKey)
    /\ pc' = "dispatch"
    /\ reattempted' = (reattempted \/ CurrentKey \in completed)
    /\ streak_dup' = (streak_dup \/ CurrentKey \in streak_keys)
    /\ UNCHANGED <<fixedVars, last_seen_date, today, current_hm, idx, phase,
                   was_active, completed, prev_active, rolled, streak_keys,
                   scanHist,
                   runHist>>

\* lines 228-230: log the attempt and call trigger_event
AttemptStart ==
    /\ pc = "scan"
    /\ idx <= Len(DAILY_PLAN)
    /\ ~NotDue(DAILY_PLAN[idx])
    /\ ~AlreadySent(CurrentKey)
    /\ events' = Append(events, <<"attempt", idx>>)
    /\ pc' = "dispatch"
    /\ reattempted' = (reattempted \/ CurrentKey \in completed)
    /\ streak_dup' = (streak_dup \/ CurrentKey \in streak_keys)
    /\ UNCHANGED <<fixedVars, sent_keys, last_seen_date, today, current_hm, idx,
                   phase, was_active, completed, prev_active, rolled,
                   streak_keys, scanHist,
                   runHist>>

\* lines 230-231: trigger_event returned, the success is logged
DispatchReturns ==
    /\ pc = "dispatch"
    /\ events' = Append(events, <<"success", idx>>)
    /\ pc' = "finally"
    /\ UNCHANGED <<fixedVars, sent_keys, last_seen_date, today, current_hm, idx,
                   phase, histVars>>

\* the key is recorded on success only
DispatchRaisesUnrecorded ==
    /\ pc = "dispatch"
    /\ events' = Append(events, <<"failure", idx>>)
    /\ idx' = idx + 1
    /\ pc' = "scan"
    /\ completed' = completed \cup {CurrentKey}
    /\ streak_keys' = streak_keys \cup {CurrentKey}
    /\ UNCHANGED <<fixedVars, sent_keys, last_seen_date, today, current_hm,
                   phase, was_active, reattempted, prev_active, rolled,
                   streak_dup, scanHist,
                   runHist>>

\* the exception is logged and raised again
DispatchRaisesPropagates ==
    /\ pc = "dispatch"
    /\ events' = Append(events, <<"failure", idx>>)
    /\ sent_keys' = Record(CurrentKey)
    /\ pc' = "crashed"
    /\ completed' = completed \cup {CurrentKey}
    /\ streak_keys' = streak_keys \cup {CurrentKey}
    /\ UNCHANGED <<fixedVars, last_seen_date, today, current_hm, idx, phase,
                   was_active, reattempted, prev_active, rolled, streak_dup,
                   scanHist,
                   runHist>>

\* lines 232-233: trigger_event raised, the failure is logged
DispatchRaises ==
    /\ pc = "dispatch"
    /\ events' = Append(events, <<"failure", idx>>)
    /\ pc' = "finally"
    /\ UNCHANGED <<fixedVars, sent_keys, last_seen_date, today, current_hm, idx,
                   phase, histVars>>

\* lines 234-236: finally, the key is recorded and the for loop goes on
RecordKey ==
    /\ pc = "finally"
    /\ sent_keys' = Record(CurrentKey)
    /\ idx' = idx + 1
    /\ pc' = "scan"
    /\ completed' = completed \cup {CurrentKey}
    /\ streak_keys' = streak_keys \cup {CurrentKey}
    /\ UNCHANGED <<fixedVars, last_seen_date, today, current_hm, events, phase,
                   was_active, reattempted, prev_active, rolled, streak_dup,
                   scanHist,
                   runHist>>

\* the loop body ends with a return
EndScanReturns ==
    /\ pc = "scan"
    /\ idx > Len(DAILY_PLAN)
    /\ pc' = "exited"
    /\ UNCHANGED <<fixedVars, sent_keys, last_seen_date, today, current_hm, idx,
                   events, phase, histVars>>

\* line 240: the for loop is over, the iteration sleeps
EndScan ==
    /\ pc = "scan"
    /\ idx > Len(DAILY_PLAN)
    /\ pc' = "sleeping"
    /\ UNCHANGED <<fixedVars, sent_keys, last_seen_date, today, current_hm, idx,
                   events, phase, histVars>>

\* lines 213-214 and 240: time.sleep returned, back to the top of the loop;
\* the locals of the iteration that ended are dead and are rebound by the next
SleepReturns ==
    /\ pc = "sleeping"
    /\ pc' = "poll"
    /\ today' = NoDate
    /\ current_hm' = <<>>
    /\ idx' = 0
    /\ events' = <<>>
    /\ phase' = "none"
    /\ rolled' = FALSE
    /\ ledger_at_scan' = {}
    /\ cleared' = FALSE
    /\ UNCHANGED <<fixedVars, sent_keys, last_seen_date, was_active, completed,
                   reattempted, prev_active, streak_keys, streak_dup, runHist>>

Next ==
    \/ StartupFails
    \/ Startup
    \/ ReadClock
    \/ WaitForStart
    \/ DayBoundary
    \/ SkipItem
    \/ AttemptStart
    \/ DispatchReturns
    \/ DispatchRaises
    \/ RecordKey
    \/ EndScan
    \/ SleepReturns

Spec == Init /\ [][Next]_vars

\* lines 243-244: the process is stopped from outside, in the loop or after
\* run() raised, and the script is started again with the same environment;
\* prior remembers one of the keys the stopped process attempted, if any.
\* What the stopped process held in sent_keys and last_seen_date is left as
\* it was: only lines 201-202 of the new run() make them fresh.
Restart ==
    /\ pc # "start"
    /\ \E key \in completed \cup {NoKey}
                  \cup (IF pc \in {"dispatch", "finally"} THEN {CurrentKey} ELSE {}) :
          prior' = key
    /\ pc' = "start"
    /\ config' = NoConfig
    /\ today' = NoDate
    /\ current_hm' = <<>>
    /\ idx' = 0
    /\ events' = <<>>
    /\ phase' = "none"
    /\ was_active' = FALSE
    /\ completed' = {}
    /\ reattempted' = FALSE
    /\ prev_active' = NoDate
    /\ rolled' = FALSE
    /\ streak_keys' = {}
    /\ streak_dup' = FALSE
    /\ ledger_at_scan' = {}
    /\ cleared' = FALSE
    /\ last_read' = NoDate
    /\ decreased' = FALSE
    /\ UNCHANGED <<environ, DAILY_PLAN, sent_keys, last_seen_date>>

NextRestart ==
    \/ StartupFails
    \/ Startup
    \/ ReadClock
    \/ WaitForStart
    \/ DayBoundary
    \/ SkipItem
    \/ AttemptStart
    \/ DispatchReturns
    \/ DispatchRaises
    \/ RecordKey
    \/ EndScan
    \/ SleepReturns
    \/ Restart

\* the plans of LiveSpec are made of the two entries that share 08:30,
\* so that an iteration makes up to two dispatcher calls
LivePlanEntries ==
    { ReminderItem(T0830, "Morning dry fruits and seeds"),
      ReminderItem(T0830, "Coconut water") }

LiveInit ==
    /\ Init
    /\ \A i \in 1..Len(DAILY_PLAN) : DAILY_PLAN[i] \in LivePlanEntries

\* the process keeps running, and each dispatcher call and each sleep returns
LiveSpec == LiveInit /\ [][Next]_vars /\ WF_vars(Next)

\* the script is run again and again, each process stopped at any point
RestartSpec == LiveInit /\ [][NextRestart]_vars

(* ------------------------------ properties ----------------------------- *)

InLoop == pc \in {"poll", "check", "scan", "dispatch", "finally", "sleeping"}

\* the iteration has read the clock
InIteration == pc \in {"check", "scan", "dispatch", "finally", "sleeping"}

PlanIndexes == 1..Len(DAILY_PLAN)

IsDue(i) == DAILY_PLAN[i].time_24h = current_hm

EventsOf(kind) == { p \in 1..Len(events) : events[p][1] = kind }

Outcomes == {"success", "failure"}

\* the outcome events of this iteration whose finally clause has run
Finished ==
    { p \in EventsOf("success") \cup EventsOf("failure") :
         pc = "finally" => p < Len(events) }

\* the plan entries this iteration has started an attempt for
AttemptedNow == { events[p][2] : p \in EventsOf("attempt") }

\* C1 (as claimed): in one run no key gets more than one dispatch attempt,
\* whatever the clock readings of the polls.
C1_OneAttemptPerKeyInRun == ~reattempted

\* C1 (amended): no key gets more than one dispatch attempt across consecutive
\* active iterations that observe the same date, i.e. as long as no active
\* iteration in between observed another date.
C1_OneAttemptPerKeyWhileDateStays == ~streak_dup

\* Scenario A: a second poll in the same minute of the same date has ended
\* without an attempt for the entry that is due and was attempted before.
C1_Witness ==
    /\ pc = "sleeping"
    /\ phase = "active"
    /\ events = <<>>
    /\ \E i \in PlanIndexes : IsDue(i) /\ Key(today, DAILY_PLAN[i]) \in streak_keys

\* C2: an iteration that observes a date before start_date makes no dispatch
\* attempt, whatever the minute; an iteration on or after start_date ends with
\* every entry of its minute attempted.
C2_NoDispatchBeforeStartDate ==
    /\ (InIteration /\ today < config.start_date) =>
          /\ pc \notin {"scan", "dispatch", "finally"}
          /\ events = <<>>
    /\ (pc = "sleeping" /\ today >= config.start_date) =>
          \A i \in PlanIndexes :
             IsDue(i) => Key(today, DAILY_PLAN[i]) \in completed \cap sent_keys

\* Scenario D: an iteration before the start date, in the minute of an entry,
\* has gone to sleep.
C2_Witness ==
    /\ pc = "sleeping"
    /\ today < config.start_date
    /\ \E i \in PlanIndexes : IsDue(i)
    /\ completed = {}

\* C3 (as claimed): every attempt that has ended left its key in the ledger,
\* and no later poll attempts a key whose attempt has ended.
C3_RecordedAndNeverAttemptedAgain ==
    /\ \A p \in Finished : Key(today, DAILY_PLAN[events[p][2]]) \in sent_keys
    /\ pc = "dispatch" => CurrentKey \notin completed

\* C3 (amended): every attempt that has ended, with success or with failure,
\* left its key in the ledger, the key stays there while the loop keeps
\* observing the same date, and no poll attempts it again until an active
\* iteration observes another date.
C3_RecordedWhileDateStays ==
    /\ \A p \in Finished : Key(today, DAILY_PLAN[events[p][2]]) \in sent_keys
    /\ streak_keys \subseteq sent_keys
    /\ pc = "dispatch" => CurrentKey \notin streak_keys

\* Scenario B: the dispatcher has just failed and the scan goes on with the
\* key in the ledger.
C3_Witness ==
    /\ pc = "scan"
    /\ Len(events) > 0
    /\ events[Len(events)][1] = "failure"
    /\ Key(today, DAILY_PLAN[events[Len(events)][2]]) \in sent_keys

\* the keys recorded by this iteration
RecordedNow == { Key(today, DAILY_PLAN[events[p][2]]) : p \in Finished }

\* the number of attempts this iteration has started for a key
AttemptsNow(key) ==
    Cardinality({ p \in EventsOf("attempt") : Key(today, DAILY_PLAN[events[p][2]]) = key })

\* the ledger is emptied before the scan of an iteration that observes
\* another date than the previous active iteration
ResetBeforeScan ==
    (pc \in {"scan", "dispatch", "finally", "sleeping"} /\ rolled) => sent_keys = RecordedNow

\* C4 (as claimed): the ledger is emptied when the date changes, and an entry
\* attempted on date D is attempted exactly once on date D+1.
C4_ExactlyOnceOnNextDate ==
    /\ ResetBeforeScan
    /\ (pc = "dispatch" /\ Key(today - 1, DAILY_PLAN[idx]) \in completed) =>
          CurrentKey \notin completed

\* C4 (amended): the ledger is emptied before the scan when the date changes,
\* so an entry attempted on date D is attempted again in the first active poll
\* after the change to D+1 whose minute is the entry's, once, and not again
\* while the observed date stays D+1.
C4_OnceAfterDateChange ==
    /\ ResetBeforeScan
    /\ (pc = "sleeping" /\ rolled) =>
          \A i \in PlanIndexes : IsDue(i) => AttemptsNow(Key(today, DAILY_PLAN[i])) = 1
    /\ (pc = "sleeping" /\ phase = "active") =>
          \A i \in PlanIndexes : IsDue(i) => Key(today, DAILY_PLAN[i]) \in streak_keys
    /\ ~streak_dup

\* Scenario C: the date rolled to the next day and the entry attempted the
\* day before has been attempted again.
C4_Witness ==
    /\ pc = "sleeping"
    /\ rolled
    /\ \E i \in AttemptedNow :
          /\ Key(today - 1, DAILY_PLAN[i]) \in completed
          /\ Key(today, DAILY_PLAN[i]) \in sent_keys

\* C5: every attempt of an iteration is for an entry whose time is the
\* iteration's minute and carries the iteration's date, so an entry is never
\* attempted in another minute or for another day than the one observed.
C5_ExactMinuteOnly ==
    /\ \A i \in AttemptedNow : DAILY_PLAN[i].time_24h = current_hm
    /\ pc = "dispatch" =>
          CurrentKey = <<today, current_hm, DAILY_PLAN[idx].title>>
    /\ \A key \in RecordedNow : key[1] = today /\ key[2] = current_hm

\* an attempt is in flight while an entry of another minute, never attempted
\* on this date, has been passed over.
C5_Witness ==
    /\ pc = "dispatch"
    /\ \E j \in PlanIndexes :
          /\ j < idx
          /\ ~IsDue(j)
          /\ Key(today, DAILY_PLAN[j]) \notin completed

\* C6: a dispatcher failure leaves run() in the loop, the scan goes on behind
\* the failed entry, and the iteration ends with every entry of its minute
\* attempted.
C6_FailureDoesNotStopLoop ==
    /\ \A p \in EventsOf("failure") :
          /\ InLoop
          /\ p \in Finished => idx > events[p][2]
    /\ pc \in {"crashed", "exited"} => events = <<>>
    /\ (pc = "sleeping" /\ phase = "active") =>
          \A i \in PlanIndexes : IsDue(i) => Key(today, DAILY_PLAN[i]) \in sent_keys

\* after a failure, the same iteration has another attempt in flight.
C6_Witness ==
    /\ pc = "dispatch"
    /\ Len(events) > 1
    /\ events[Len(events) - 1][1] = "failure"

\* C7 (as claimed): once an iteration has done active work, no later
\* iteration only sleeps and skips.
C7_ActiveIsIrreversible == was_active => phase # "waiting"

\* C7 (amended): an iteration sleeps and skips exactly when the date it
\* observes is before start_date: after an active iteration, every iteration
\* that observes a date on or after start_date does active work, and one that
\* observes an earlier date sleeps and skips again.
C7_WaitingIffBeforeStartDate ==
    /\ phase = "waiting" => (pc = "sleeping" /\ today < config.start_date)
    /\ phase = "active" =>
          (pc \in {"scan", "dispatch", "finally", "sleeping"} /\ today >= config.start_date)
    /\ pc \in {"scan", "dispatch", "finally", "sleeping"} => phase # "none"

\* an iteration after an active one has observed a date before start_date and
\* sleeps without a scan.
C7_Witness ==
    /\ was_active
    /\ pc = "sleeping"
    /\ phase = "waiting"

\* C8: run() never leaves the loop, and from every state of the loop the
\* iteration reaches its sleep and a new iteration reads the clock.
C8_NoTerminalState ==
    /\ [][InLoop => InLoop']_vars
    /\ InLoop ~> (pc = "sleeping")
    /\ (pc = "sleeping") ~> (pc = "check")

\* a new iteration has read the clock after an iteration that dispatched, and
\* after one that only waited.
C8_Witness ==
    /\ pc = "check"
    /\ completed # {}
    /\ today < config.start_date

\* what the configuration must not be: a required variable missing or
\* blank, a number with neither prefix, a malformed date or integer, a name
\* that is no timezone
ConfigError(env) ==
    \/ \E name \in {"TWILIO_ACCOUNT_SID", "TWILIO_AUTH_TOKEN",
                    "TWILIO_WHATSAPP_NUMBER", "SISTER_WHATSAPP_NUMBER"} :
          env[name] = Blank
    \/ \E name \in {"TWILIO_WHATSAPP_NUMBER", "SISTER_WHATSAPP_NUMBER"} :
          /\ env[name] # Blank
          /\ env[name][1] \notin {"whatsapp:", "+"}
    \/ env.START_DATE \notin { <<d>> : d \in Dates }
    \/ \E name \in {"CALCIUM_REMINDER_WEEKDAY", "POLL_INTERVAL_SECONDS"} :
          env[name] = Malformed
    \/ env.TIMEZONE = <<"Nowhere/Bad">>

\* C9: with a configuration error run() never enters the loop: it is at its
\* start or has raised, has read no clock and has made no dispatch attempt.
C9_ConfigErrorIsFatal ==
    /\ ConfigError(environ) =>
          /\ pc \in {"start", "crashed"}
          /\ config = NoConfig
          /\ today = NoDate
          /\ events = <<>>
          /\ completed = {}
    /\ pc = "crashed" => ConfigError(environ)

\* run() has raised on a destination number with neither prefix, every other
\* setting being well formed.
C9_Witness ==
    /\ pc = "crashed"
    /\ environ.SISTER_WHATSAPP_NUMBER = <<"91">>
    /\ ~ConfigError([environ EXCEPT !.SISTER_WHATSAPP_NUMBER = <<"+", "91">>])

\* C10: within an iteration the attempts follow the plan order, each attempt
\* has ended before the next one starts (at most one dispatcher call is in
\* flight), and an iteration starts only after the sleep of the one before.
C10_StrictlySequential ==
    /\ \A p \in 1..Len(events) :
          IF p % 2 = 1
             THEN /\ events[p][1] = "attempt"
                  /\ p > 2 => events[p - 2][2] < events[p][2]
             ELSE /\ events[p][1] \in Outcomes
                  /\ events[p][2] = events[p - 1][2]
    /\ pc = "dispatch" <=> Len(events) % 2 = 1
    /\ pc = "dispatch" => events[Len(events)] = <<"attempt", idx>>
    /\ pc \in {"poll", "check"} => (phase = "none" /\ events = <<>>)

\* the second attempt of an iteration is in flight, the first has ended.
C10_Witness ==
    /\ pc = "dispatch"
    /\ Len(events) = 3
    /\ events[1][2] < events[3][2]

\* the key of plan entry i was in the ledger when the scan reached the entry
InLedgerWhenReached(i) ==
    \/ Key(today, DAILY_PLAN[i]) \in ledger_at_scan
    \/ \E j \in AttemptedNow : j < i /\ DAILY_PLAN[j] = DAILY_PLAN[i]

\* C11: in an active iteration every plan entry the scan has passed whose
\* time is the current minute and whose key was not in the ledger when the
\* scan reached it has got exactly one dispatch attempt, and no other entry
\* has got one; entries that share a time under different titles are all
\* attempted.
C11_EveryDuePendingEntryAttemptedOnce ==
    (pc \in {"scan", "dispatch", "finally", "sleeping"} /\ phase = "active") =>
       \A i \in PlanIndexes :
          /\ Cardinality({ p \in EventsOf("attempt") : events[p][2] = i }) <= 1
          /\ i \in AttemptedNow => (IsDue(i) /\ ~InLedgerWhenReached(i))
          /\ (i < idx /\ IsDue(i) /\ ~InLedgerWhenReached(i)) => i \in AttemptedNow
          /\ (pc = "sleeping" /\ IsDue(i) /\ ~InLedgerWhenReached(i)) =>
                i \in AttemptedNow

\* two entries that share the time and differ in the title have both been
\* attempted in one iteration.
C11_Witness ==
    /\ pc = "sleeping"
    /\ \E i, j \in AttemptedNow :
          /\ i < j
          /\ DAILY_PLAN[i].time_24h = DAILY_PLAN[j].time_24h
          /\ DAILY_PLAN[i].title # DAILY_PLAN[j].title

\* C12: every key in the ledger carries the date last_seen_date, at the
\* iteration boundaries and in between: no key recorded for a date is in the
\* ledger once the loop has observed another date.
C12_LedgerHoldsCurrentDateOnly ==
    /\ \A key \in sent_keys : key[1] = last_seen_date
    /\ pc \in {"scan", "dispatch", "finally", "sleeping"} /\ phase = "active" =>
          last_seen_date = today

\* at an iteration boundary the ledger holds keys while keys recorded for
\* another date have been dropped.
C12_Witness ==
    /\ pc = "poll"
    /\ sent_keys # {}
    /\ \E key \in completed : key[1] # last_seen_date

\* C13: an active iteration clears the ledger and sets last_seen_date to
\* today exactly when today differs from last_seen_date, which is exactly
\* when it differs from the date of the previous active iteration; the first
\* active iteration always does, and an iteration that observes the same date
\* as the one before leaves both as they are.
C13_ClearedOncePerDateChange ==
    [][(pc = "check" /\ pc' = "scan") =>
          /\ cleared' <=> (today # last_seen_date)
          /\ cleared' <=> (today # prev_active)
          /\ ~was_active => cleared'
          /\ cleared' => (sent_keys' = {} /\ last_seen_date' = today)
          /\ ~cleared' => UNCHANGED <<sent_keys, last_seen_date>>]_vars

\* an iteration on the date of the one before has started its scan with the
\* ledger kept.
C13_Witness ==
    /\ pc = "scan"
    /\ idx = 1
    /\ ~cleared
    /\ ledger_at_scan # {}

\* C14: a recorded key stays in the ledger until the next reset: the ledger
\* loses a key only in the day-boundary step of an iteration that observes
\* another date than the previous active iteration; recording a key puts it
\* in the ledger, and recording a key that is present leaves the ledger
\* unchanged.
C14_RecordedUntilReset ==
    /\ [][\/ sent_keys \subseteq sent_keys'
          \/ pc = "check" /\ pc' = "scan" /\ today # prev_active]_vars
    /\ [](\A key \in sent_keys : Record(key) = sent_keys)
    /\ [](pc = "dispatch" => sent_keys \subseteq Record(CurrentKey)
                             /\ CurrentKey \in Record(CurrentKey))

\* a key is being attempted while the ledger holds a key recorded by an
\* earlier iteration on the same date.
C14_Witness ==
    /\ pc = "dispatch"
    /\ ~cleared
    /\ ledger_at_scan # {}
    /\ ledger_at_scan \subseteq sent_keys

\* C15: an iteration that observes a date before start_date goes from the
\* clock read to its sleep and back to the top of the loop with the ledger
\* and last_seen_date unchanged, without a dispatcher call and without an
\* attempt event.
C15_WaitingIterationOnlySleeps ==
    /\ [][(pc = "check" /\ today < config.start_date) =>
             /\ pc' = "sleeping"
             /\ UNCHANGED <<sent_keys, last_seen_date, events, completed>>]_vars
    /\ [][(pc = "sleeping" /\ today < config.start_date) =>
             /\ pc' = "poll"
             /\ UNCHANGED <<sent_keys, last_seen_date, completed>>]_vars
    /\ [](phase = "waiting" => (events = <<>> /\ ~cleared))

\* a waiting iteration sleeps while the ledger holds the keys of an earlier
\* active iteration.
C15_Witness ==
    /\ pc = "sleeping"
    /\ phase = "waiting"
    /\ sent_keys # {}
    /\ last_seen_date >= config.start_date

\* C16: for each attempted entry the attempt is logged first, then the
\* dispatcher is called, then exactly one outcome (success or failure) is
\* logged, and only then is the key added to the ledger: the key is absent
\* during the call and when the outcome is logged, and the ledger gains a
\* key only in the step that follows the outcome event of that key.
C16_AttemptCallOutcomeThenRecord ==
    /\ [](pc = "dispatch" =>
             /\ events[Len(events)] = <<"attempt", idx>>
             /\ CurrentKey \notin sent_keys)
    /\ [](pc = "finally" =>
             /\ Len(events) >= 2
             /\ events[Len(events)][1] \in Outcomes
             /\ events[Len(events)][2] = idx
             /\ events[Len(events) - 1] = <<"attempt", idx>>
             /\ CurrentKey \notin sent_keys)
    /\ [](\A i \in PlanIndexes :
             Cardinality({ p \in 1..Len(events) :
                             events[p][1] \in Outcomes /\ events[p][2] = i })
                = IF i \in AttemptedNow /\ ~(pc = "dispatch" /\ i = idx)
                     THEN 1 ELSE 0)
    /\ [][(pc = "dispatch") =>
             /\ pc' = "finally"
             /\ \E o \in Outcomes : events' = Append(events, <<o, idx>>)
             /\ UNCHANGED sent_keys]_vars
    /\ [][(pc = "finally") =>
             /\ sent_keys' = sent_keys \cup {CurrentKey}
             /\ UNCHANGED events]_vars
    /\ [][(\E key \in sent_keys' : key \notin sent_keys) => pc = "finally"]_vars

\* the failure of an attempt has been logged and its key is not yet in the
\* ledger, which holds the key of an earlier attempt of the iteration.
C16_Witness ==
    /\ pc = "finally"
    /\ events[Len(events)] = <<"failure", idx>>
    /\ CurrentKey \notin sent_keys
    /\ Len(events) = 4
    /\ Key(today, DAILY_PLAN[events[1][2]]) \in sent_keys

\* C17: a newly started run() begins with an empty ledger and an unset
\* last_seen_date, whatever the process before it left: until its first active
\* iteration both stay so, the first active iteration clears the ledger and
\* starts its scan with an empty one, and an iteration that scans from an
\* empty ledger attempts every entry of its minute once, the entry the
\* previous process attempted in the same minute of the same date included.
C17_LedgerFreshAtProcessStart ==
    /\ []((InLoop /\ ~was_active) => (sent_keys = {} /\ last_seen_date = NoDate))
    /\ [][(pc = "start" /\ pc' = "poll") =>
             (sent_keys' = {} /\ last_seen_date' = NoDate)]_vars
    /\ [][(pc = "check" /\ pc' = "scan" /\ ~was_active) =>
             (cleared' /\ ledger_at_scan' = {} /\ sent_keys' = {})]_vars
    /\ []((pc = "sleeping" /\ phase = "active" /\ ledger_at_scan = {}) =>
             \A i \in PlanIndexes :
                IsDue(i) => AttemptsNow(Key(today, DAILY_PLAN[i])) = 1)
    /\ []((pc = "scan" /\ idx <= Len(DAILY_PLAN) /\ ledger_at_scan = {}
            /\ IsDue(idx) /\ CurrentKey = prior
            /\ AttemptsNow(CurrentKey) = 0) => ENABLED AttemptStart)

\* the first active iteration of a restarted process has an attempt in flight
\* for the key the process before it attempted.
C17_Witness ==
    /\ pc = "dispatch"
    /\ prior # NoKey
    /\ CurrentKey = prior
    /\ completed = {}
    /\ sent_keys = {}

\* C18: as long as no poll of the run has read an earlier date than the poll
\* before it, no attempt has started for a key whose attempt had ended
\* earlier in the run, whatever the outcomes of the attempts and however the
\* polls fall in time.
C18_OneAttemptPerKeyOnForwardClock ==
    /\ ~decreased => ~reattempted
    /\ (~decreased /\ pc \in {"dispatch", "finally"}) => CurrentKey \notin completed

\* on a clock that never went back, the entry attempted the day before is
\* being attempted under the key of the next day.
C18_Witness ==
    /\ ~decreased
    /\ pc = "dispatch"
    /\ today > 0
    /\ \E d \in 0..(today - 1) : Key(d, DAILY_PLAN[idx]) \in completed
    /\ \E key \in completed : key[1] = today

\* C19: the ledger never holds more keys than the plan has entries.
C19_LedgerBoundedByPlan ==
    /\ Cardinality(sent_keys) <= Len(DAILY_PLAN)
    /\ sent_keys \subseteq { Key(last_seen_date, DAILY_PLAN[i]) : i \in PlanIndexes }

\* the ledger holds one key for every entry of the plan, after more attempts
\* than the plan has entries.
C19_Witness ==
    /\ Cardinality(sent_keys) = Len(DAILY_PLAN)
    /\ Cardinality(completed) > Len(DAILY_PLAN)

====
